---- MODULE Spec2Model ----
(***************************************************************************)
(* Model of openstack-tenant-cleaner:                                      *)
(*   - managers.py: Manager.delete / Manager.get_all and the kind-specific *)
(*     _delete and _convert_raw of the keypair, instance and image         *)
(*     managers;                                                           *)
(*   - configuration.py: parse_configuration and the detector lists it     *)
(*     builds for each cleanup area.                                       *)
(* The detectors module and the cleanup cycle that consumes the parsed     *)
(* configuration are not part of the modelled sources; they are modelled   *)
(* from the written specification (sections 4.2 and 4.3).                  *)
(***************************************************************************)
EXTENDS Integers, Sequences, FiniteSets, TLC

VARIABLES
    \* ---- Manager.delete (managers.py) ----
    pc,            \* position inside one Manager.delete call
    manager,       \* which concrete manager the call is made on
    item,          \* the `item` keyword argument (None or an item)
    identifier,    \* the `identifier` keyword argument (None or an id)
    calls,         \* calls made below Manager.delete, in order, with outcomes
    result,        \* how the Manager.delete call ended
    \* ---- Manager.get_all (managers.py) ----
    gaPc,          \* position inside one Manager.get_all call
    gaManager,     \* which concrete manager the call is made on
    raw_models,    \* what _get_all_raw returned
    position,      \* index of the raw model the for loop is at
    models,        \* the local set `models`
    fetched,       \* how the Manager.get_all call ended
    \* ---- parse_configuration (configuration.py) ----
    cfgPc,                  \* position inside parse_configuration
    raw_cleanups,           \* the cleanup groups of the file read so far
    cleanup_configuration,  \* the local `cleanup_configuration`
    parsed,                 \* how parse_configuration ended
    \* ---- one cleanup cycle over the parsed configuration ----
    cycles,                 \* how many cycles have run
    instance_snapshot,      \* the instance snapshot of that cycle
    backend_instances,      \* the instances left on the backend after it
    delete_sets             \* per configured area, the items it chose to delete

deleteVars == <<pc, manager, item, identifier, calls, result>>

getAllVars == <<gaPc, gaManager, raw_models, position, models, fetched>>

configVars == <<cfgPc, raw_cleanups, cleanup_configuration, parsed>>

cycleVars == <<cycles, instance_snapshot, backend_instances, delete_sets>>

vars == <<deleteVars, getAllVars, configVars, cycleVars>>

---------------------------------------------------------------------------
(* Values *)

None == "None"

\* `item=None`: no item given (an item is a record, an identifier a string)
NoItem == [none |-> TRUE]

Identifiers == {"id-a", "id-b"}

Items == [identifier : Identifiers]

Managers == {"OpenstackKeypairManager", "OpenstackInstanceManager", "OpenstackImageManager"}

\* Text is a sequence of tokens; `x in text` is contiguous containment.
Contains(sub, text) ==
    \E i \in 1..(Len(text) - Len(sub) + 1) : SubSeq(text, i, i + Len(sub) - 1) = sub

InvalidStateMarker == <<"nova.exception.InstanceInvalidState">>

NoError == [cls |-> "None", message |-> <<>>]

ClientExceptions ==
    { [cls |-> "ClientException", message |-> m] :
        m \in { <<"Unexpected API Error.", "nova.exception.InstanceInvalidState", "(HTTP 500)">>,
                <<"nova.exception.InstanceInvalidState">>,
                <<"Conflict", "(HTTP 409)">>,
                <<"InstanceInvalidState">> } }

\* Errors of the transport that are not novaclient ClientException.
OtherExceptions == { [cls |-> "ConnectionError", message |-> <<"timed out">>] }

BackendOutcomes == {NoError} \cup ClientExceptions \cup OtherExceptions

Returned == [raised |-> FALSE, exc |-> NoError]

Raise_Wrapped(e) ==
    [raised |-> TRUE, exc |-> [cls |-> "DeletionError", message |-> e.message]]

Raise(e) == [raised |-> TRUE, exc |-> e]

Call(op, id, o) == [op |-> op, id |-> id, outcome |-> o]

---------------------------------------------------------------------------
(* Manager.delete: argument handling, managers.py lines 94-101 *)

ValueError == [cls |-> "ValueError", message |-> <<>>]

DeleteArgumentError(it, id) ==
    IF it # NoItem /\ id # None /\ it.identifier # id THEN ValueError
    ELSE IF it = NoItem /\ id = None THEN ValueError
    ELSE NoError

DeleteIdentifier_IgnoresItem(it, id) == id

DeleteIdentifier(it, id) ==
    IF id = None /\ it # NoItem THEN it.identifier ELSE id

IsInvalidState_AnyMessage(e) == TRUE

\* `"nova.exception.InstanceInvalidState" not in e.message` is false
IsInvalidState(e) == Contains(InvalidStateMarker, e.message)

\* `except ClientException as e`
IsClientException(e) == e.cls = "ClientException"

FirstStep(m) ==
    IF m = "OpenstackInstanceManager" THEN "force_delete" ELSE "backend_delete"

BackendDeleteOp(m) ==
    IF m = "OpenstackKeypairManager" THEN "keypairs.delete" ELSE "images.delete"

Delete(m, it, id) ==
    /\ pc = "idle"
    /\ manager' = m
    /\ item' = it
    /\ identifier' = id
    /\ IF DeleteArgumentError(it, id) # NoError
         THEN /\ pc' = "done"
              /\ calls' = <<>>
              /\ result' = Raise(DeleteArgumentError(it, id))
         ELSE /\ pc' = FirstStep(m)
              /\ calls' = <<Call("_delete", DeleteIdentifier(it, id), NoError)>>
              /\ result' = Returned
    /\ UNCHANGED <<getAllVars, configVars, cycleVars>>

\* OpenstackKeypairManager._delete / OpenstackImageManager._delete
BackendDelete(o) ==
    /\ pc = "backend_delete"
    /\ calls' = Append(calls, Call(BackendDeleteOp(manager), calls[1].id, o))
    /\ result' = IF o = NoError THEN Returned ELSE Raise(o)
    /\ pc' = "done"
    /\ UNCHANGED <<manager, item, identifier>>
    /\ UNCHANGED <<getAllVars, configVars, cycleVars>>

AfterForceDelete_NoReset(o) ==
    IF o = NoError THEN "done"
    ELSE IF IsClientException(o) /\ IsInvalidState(o) THEN "retry_force_delete"
    ELSE "done"

\* OpenstackInstanceManager._delete, first force_delete and the except clause
AfterForceDelete(o) ==
    IF o = NoError THEN "done"
    ELSE IF IsClientException(o) /\ IsInvalidState(o) THEN "reset_state"
    ELSE "done"

ForceDelete(o) ==
    /\ pc = "force_delete"
    /\ calls' = Append(calls, Call("force_delete", calls[1].id, o))
    /\ pc' = AfterForceDelete(o)
    /\ result' = IF o = NoError \/ AfterForceDelete(o) = "reset_state" THEN Returned ELSE Raise(o)
    /\ UNCHANGED <<manager, item, identifier>>
    /\ UNCHANGED <<getAllVars, configVars, cycleVars>>

AfterResetState_Loop(o) == IF o = NoError THEN "force_delete" ELSE "done"

AfterResetState(o) == IF o = NoError THEN "retry_force_delete" ELSE "done"

ResetState(o) ==
    /\ pc = "reset_state"
    /\ calls' = Append(calls, Call("reset_state", calls[1].id, o))
    /\ pc' = AfterResetState(o)
    /\ result' = IF o = NoError THEN Returned ELSE Raise(o)
    /\ UNCHANGED <<manager, item, identifier>>
    /\ UNCHANGED <<getAllVars, configVars, cycleVars>>

RetryForceDelete(o) ==
    /\ pc = "retry_force_delete"
    /\ calls' = Append(calls, Call("force_delete", calls[1].id, o))
    /\ pc' = "done"
    /\ result' = IF o = NoError THEN Returned ELSE Raise(o)
    /\ UNCHANGED <<manager, item, identifier>>
    /\ UNCHANGED <<getAllVars, configVars, cycleVars>>

\* The call is over; the manager keeps no state between calls.
DeleteReturn ==
    /\ pc = "done"
    /\ pc' = "idle"
    /\ manager' = None
    /\ item' = NoItem
    /\ identifier' = None
    /\ calls' = <<>>
    /\ result' = Returned
    /\ UNCHANGED <<getAllVars, configVars, cycleVars>>

InitDelete ==
    /\ pc = "idle"
    /\ manager = None
    /\ item = NoItem
    /\ identifier = None
    /\ calls = <<>>
    /\ result = Returned

NextDelete ==
    \/ \E m \in Managers, it \in Items \cup {NoItem}, id \in Identifiers \cup {None} : Delete(m, it, id)
    \/ \E o \in BackendOutcomes : BackendDelete(o)
    \/ \E o \in BackendOutcomes : ForceDelete(o)
    \/ \E o \in BackendOutcomes : ResetState(o)
    \/ \E o \in BackendOutcomes : RetryForceDelete(o)
    \/ DeleteReturn


---------------------------------------------------------------------------
(* Properties of Manager.delete *)

Ops == [i \in 1..Len(calls) |-> calls[i].op]

Count(op) == Cardinality({i \in 1..Len(calls) : calls[i].op = op})

\* The backend's "invalid state" failure, as the backend words it.
InvalidStateFailure(o) ==
    /\ o.cls = "ClientException"
    /\ \E i \in 1..Len(o.message) : o.message[i] = "nova.exception.InstanceInvalidState"

Failure(o) == o # NoError

InstanceCallDone == pc = "done" /\ manager = "OpenstackInstanceManager"

\* C1: an instance delete whose first forced delete fails with "invalid
\* state" and whose forced delete after the state reset succeeds returns
\* normally, having called force_delete, reset_state, force_delete in that
\* order: exactly 2 forced deletes and exactly 1 reset.
C1_ResetThenRetrySucceeds ==
    (/\ InstanceCallDone
     /\ Len(calls) >= 3
     /\ InvalidStateFailure(calls[2].outcome)
     /\ calls[Len(calls)].op = "force_delete"
     /\ calls[Len(calls)].outcome = NoError)
       => /\ result = Returned
          /\ Ops = <<"_delete", "force_delete", "reset_state", "force_delete">>
          /\ calls[3].outcome = NoError
          /\ Count("force_delete") = 2
          /\ Count("reset_state") = 1

C1_Witness ==
    /\ InstanceCallDone
    /\ Len(calls) = 4
    /\ InvalidStateFailure(calls[2].outcome)
    /\ calls[3] = Call("reset_state", calls[1].id, NoError)
    /\ calls[4] = Call("force_delete", calls[1].id, NoError)
    /\ result = Returned

\* C2: one delete call never makes more than 2 forced deletes nor more than
\* 1 reset, whatever the backend answers; when both forced deletes fail
\* with "invalid state" the call ends in failure after exactly 1 reset and
\* exactly 2 forced deletes.
C2_RetryIsBounded ==
    /\ Count("force_delete") <= 2
    /\ Count("reset_state") <= 1
    /\ Len(calls) <= 4
    /\ (/\ InstanceCallDone
        /\ Count("force_delete") >= 2
        /\ \A i \in 1..Len(calls) :
              calls[i].op = "force_delete" => InvalidStateFailure(calls[i].outcome))
          => /\ result.raised
             /\ Count("reset_state") = 1
             /\ Count("force_delete") = 2
             /\ Ops = <<"_delete", "force_delete", "reset_state", "force_delete">>

C2_Witness ==
    /\ InstanceCallDone
    /\ Len(calls) = 4
    /\ InvalidStateFailure(calls[2].outcome)
    /\ calls[3].op = "reset_state"
    /\ InvalidStateFailure(calls[4].outcome)
    /\ result.raised

\* C3: when the first forced delete of an instance fails with anything but
\* "invalid state", the call ends at once with that failure: no reset and
\* no second forced delete; when reset_state itself fails, the call ends
\* with that failure and no second forced delete is made.
C3_OtherFailuresPropagate ==
    manager = "OpenstackInstanceManager" =>
      /\ (/\ Len(calls) >= 2
          /\ Failure(calls[2].outcome)
          /\ ~InvalidStateFailure(calls[2].outcome))
            => /\ pc = "done"
               /\ Len(calls) = 2
               /\ result = [raised |-> TRUE, exc |-> calls[2].outcome]
      /\ \A k \in 1..Len(calls) :
            (calls[k].op = "reset_state" /\ Failure(calls[k].outcome))
              => /\ pc = "done"
                 /\ k = Len(calls)
                 /\ Count("force_delete") = 1
                 /\ result = [raised |-> TRUE, exc |-> calls[k].outcome]

C3_Witness ==
    /\ InstanceCallDone
    /\ Len(calls) = 2
    /\ calls[2].op = "force_delete"
    /\ calls[2].outcome.cls = "ClientException"
    /\ ~InvalidStateFailure(calls[2].outcome)
    /\ result.raised

BackendRefused == pc = "done" /\ result.raised /\ Len(calls) >= 2

BadArguments ==
    \/ item = NoItem /\ identifier = None
    \/ item # NoItem /\ identifier # None /\ item.identifier # identifier

\* C10: a delete call given neither item nor identifier, or given both with
\* different identifiers, ends with ValueError and no call below it; every
\* other call invokes the manager's _delete exactly once, with the
\* identifier given or else with the item's identifier.
C10_DeleteArguments ==
    pc # "idle" =>
      IF BadArguments
        THEN /\ pc = "done"
             /\ calls = <<>>
             /\ result.raised
             /\ result.exc.cls = "ValueError"
        ELSE /\ Count("_delete") = 1
             /\ calls[1].op = "_delete"
             /\ calls[1].id = (IF identifier # None THEN identifier ELSE item.identifier)
             /\ calls[1].id \in Identifiers
             /\ (result.raised => result.exc.cls # "ValueError")

C10_Witness ==
    /\ pc = "done"
    /\ item # NoItem
    /\ identifier = None
    /\ Count("_delete") = 1
    /\ calls[1].id = item.identifier

---------------------------------------------------------------------------
(* Manager.get_all and the _convert_raw of each manager *)

MaxListing == 2

\* dateutil's parse: the texts it understands, and the instant each denotes
KnownDates == ("2017-01-01T00:00:00Z" :> 10) @@ ("2017-06-01T12:00:00Z" :> 20)

Ok(v) == [ok |-> TRUE, value |-> v, exc |-> NoError]

Failed(cls) == [ok |-> FALSE, value |-> None, exc |-> [cls |-> cls, message |-> <<>>]]

parse_datetime(text) ==
    IF text \in DOMAIN KnownDates THEN Ok(KnownDates[text]) ELSE Failed("ValueError")

\* `model.attribute`
Attr(model, a) == IF a \in DOMAIN model THEN Ok(model[a]) ELSE Failed("AttributeError")

\* `mapping["key"]`
Subscript(mapping, k) == IF k \in DOMAIN mapping THEN Ok(mapping[k]) ELSE Failed("KeyError")

\* `parse_datetime(model.attribute)`
DateAttr(model, a) ==
    IF Attr(model, a).ok THEN parse_datetime(model[a]) ELSE Attr(model, a)

\* `model.image["id"]`
ImageIdAttr(model) ==
    IF Attr(model, "image").ok THEN Subscript(model.image, "id") ELSE Attr(model, "image")

\* The constructor arguments are evaluated left to right; the first one that
\* fails decides the error.
FirstFailure(args) ==
    LET bad == {i \in 1..Len(args) : ~args[i].ok}
    IN  args[CHOOSE i \in bad : \A j \in bad : i <= j]

AllOk(args) == \A i \in 1..Len(args) : args[i].ok

KeypairArgs(model) == <<Attr(model, "name"), Attr(model, "name"), Attr(model, "fingerprint")>>

InstanceArgs(model) ==
    <<Attr(model, "id"), Attr(model, "name"), DateAttr(model, "created"),
      DateAttr(model, "updated"), ImageIdAttr(model), Attr(model, "key_name")>>

ImageArgs(model) ==
    <<Attr(model, "id"), Attr(model, "name"), DateAttr(model, "created_at"),
      DateAttr(model, "updated_at"), Attr(model, "protected")>>

ConvertKeypair(model) ==
    LET a == KeypairArgs(model)
    IN  IF AllOk(a)
          THEN Ok([identifier |-> a[1].value, name |-> a[2].value, fingerprint |-> a[3].value])
          ELSE FirstFailure(a)

ConvertInstance(model) ==
    LET a == InstanceArgs(model)
    IN  IF AllOk(a)
          THEN Ok([identifier |-> a[1].value, name |-> a[2].value, created_at |-> a[3].value,
                   updated_at |-> a[4].value, image |-> a[5].value, key_name |-> a[6].value])
          ELSE FirstFailure(a)

ConvertImage(model) ==
    LET a == ImageArgs(model)
    IN  IF AllOk(a)
          THEN Ok([identifier |-> a[1].value, name |-> a[2].value, created_at |-> a[3].value,
                   updated_at |-> a[4].value, protected |-> a[5].value])
          ELSE FirstFailure(a)

_convert_raw(m, model) ==
    IF m = "OpenstackKeypairManager" THEN ConvertKeypair(model)
    ELSE IF m = "OpenstackInstanceManager" THEN ConvertInstance(model)
    ELSE ConvertImage(model)

\* Raw records the backend clients may list.
RawKeypairs ==
    { [name |-> "key-a", fingerprint |-> "aa:bb"],
      [name |-> "key-b", fingerprint |-> "cc:dd"],
      [name |-> "key-b", fingerprint |-> "ee:ff"],
      [name |-> "key-c"] }

RawServers ==
    { [id |-> "id-a", name |-> "vm", created |-> "2017-01-01T00:00:00Z",
       updated |-> "2017-06-01T12:00:00Z", image |-> [id |-> "img-1"], key_name |-> "key-a"],
      [id |-> "id-b", name |-> "vm", created |-> "2017-06-01T12:00:00Z",
       updated |-> "2017-06-01T12:00:00Z", image |-> [id |-> "img-1"], key_name |-> None],
      [id |-> "id-c", name |-> "volume-booted", created |-> "2017-01-01T00:00:00Z",
       updated |-> "2017-01-01T00:00:00Z", image |-> [links |-> "none"], key_name |-> None],
      [id |-> "id-d", name |-> "building", created |-> "2017-01-01T00:00:00Z",
       image |-> [id |-> "img-1"], key_name |-> None],
      [id |-> "id-e", name |-> "odd", created |-> "yesterday",
       updated |-> "2017-01-01T00:00:00Z", image |-> [id |-> "img-1"], key_name |-> None] }

RawImages ==
    { [id |-> "img-1", name |-> "base", created_at |-> "2017-01-01T00:00:00Z",
       updated_at |-> "2017-01-01T00:00:00Z", protected |-> TRUE],
      [id |-> "img-2", name |-> "temp-1", created_at |-> "2017-06-01T12:00:00Z",
       updated_at |-> "2017-06-01T12:00:00Z", protected |-> FALSE],
      [id |-> "img-3", name |-> "queued", created_at |-> "2017-06-01T12:00:00Z",
       updated_at |-> "2017-06-01T12:00:00Z"],
      [id |-> "img-4", created_at |-> "2017-06-01T12:00:00Z",
       updated_at |-> "2017-06-01T12:00:00Z", protected |-> FALSE] }

RawModels(m) ==
    IF m = "OpenstackKeypairManager" THEN RawKeypairs
    ELSE IF m = "OpenstackInstanceManager" THEN RawServers
    ELSE RawImages

Listings(m) == UNION { [1..n -> RawModels(m)] : n \in 0..MaxListing }

\* `models.add(x)`: items are equal, and hash alike, when their identifiers are
SetAdd(S, x) == IF \E y \in S : y.identifier = x.identifier THEN S ELSE S \cup {x}

NotFetched == [raised |-> FALSE, exc |-> NoError, value |-> {}]

GetAllAfter_SkipRecord(c) == "converting"

\* Where the for loop of get_all goes after one _convert_raw
GetAllAfter(c) == IF c.ok THEN "converting" ELSE "done"

GetAll(m, listing) ==
    /\ gaPc = "idle"
    /\ gaPc' = "converting"
    /\ gaManager' = m
    /\ raw_models' = listing
    /\ position' = 1
    /\ models' = {}
    /\ fetched' = NotFetched
    /\ UNCHANGED <<deleteVars, configVars, cycleVars>>

ConvertNext ==
    /\ gaPc = "converting"
    /\ position <= Len(raw_models)
    /\ LET c == _convert_raw(gaManager, raw_models[position])
       IN  /\ gaPc' = GetAllAfter(c)
           /\ models' = IF c.ok THEN SetAdd(models, c.value) ELSE models
           /\ position' = IF GetAllAfter(c) = "converting" THEN position + 1 ELSE position
           /\ fetched' = IF GetAllAfter(c) = "converting" THEN fetched
                         ELSE [raised |-> TRUE, exc |-> c.exc, value |-> {}]
    /\ UNCHANGED <<gaManager, raw_models>>
    /\ UNCHANGED <<deleteVars, configVars, cycleVars>>

GetAllReturn ==
    /\ gaPc = "converting"
    /\ position > Len(raw_models)
    /\ gaPc' = "done"
    /\ fetched' = [raised |-> FALSE, exc |-> NoError, value |-> models]
    /\ UNCHANGED <<gaManager, raw_models, position, models>>
    /\ UNCHANGED <<deleteVars, configVars, cycleVars>>

\* The call is over; nothing of it is kept.
GetAllDone ==
    /\ gaPc = "done"
    /\ gaPc' = "idle"
    /\ gaManager' = None
    /\ raw_models' = <<>>
    /\ position' = 1
    /\ models' = {}
    /\ fetched' = NotFetched
    /\ UNCHANGED <<deleteVars, configVars, cycleVars>>

InitGetAll ==
    /\ gaPc = "idle"
    /\ gaManager = None
    /\ raw_models = <<>>
    /\ position = 1
    /\ models = {}
    /\ fetched = NotFetched

NextGetAll ==
    \/ \E m \in Managers : \E listing \in Listings(m) : GetAll(m, listing)
    \/ ConvertNext
    \/ GetAllReturn
    \/ GetAllDone

Convertible(i) == _convert_raw(gaManager, raw_models[i]).ok

Failing == {i \in 1..Len(raw_models) : ~Convertible(i)}

FirstFailing == CHOOSE i \in Failing : \A j \in Failing : i <= j

\* C8 as stated: when the listing holds a record whose conversion fails, the
\* get_all call still returns a set, and every other record of the listing
\* is present in it.
C8_Original ==
    (gaPc = "done" /\ Failing # {}) =>
      /\ ~fetched.raised
      /\ \A i \in 1..Len(raw_models) :
            Convertible(i) =>
              \E x \in fetched.value :
                 x.identifier = _convert_raw(gaManager, raw_models[i]).value.identifier

\* C8 as amended: when the listing holds a record whose conversion fails,
\* the get_all call ends with the conversion error of the first such record
\* and returns no set; the records after it are never converted.
C8_ConversionFailureAbortsFetch ==
    (gaPc = "done" /\ Failing # {}) =>
      /\ fetched.raised
      /\ fetched.exc = _convert_raw(gaManager, raw_models[FirstFailing]).exc
      /\ fetched.exc.cls \in {"AttributeError", "KeyError", "ValueError"}
      /\ fetched.value = {}
      /\ position = FirstFailing
      /\ Cardinality(models) < Len(raw_models)

C8_Witness ==
    /\ gaPc = "done"
    /\ gaManager = "OpenstackInstanceManager"
    /\ Len(raw_models) = 2
    /\ ~Convertible(1)
    /\ Convertible(2)
    /\ fetched.raised

---------------------------------------------------------------------------
(* parse_configuration and the detector lists it builds *)

MaxCleanups == 2

ImageManager == "OpenstackImageManager"
InstanceManager == "OpenstackInstanceManager"
KeyPairManager == "OpenstackKeyPairManager"

\* boltons' parse_timedelta: the texts it understands, in hours
KnownDurations == ("12 hours" :> 12) @@ ("1 day" :> 24)

parse_timedelta(text) ==
    IF text \in DOMAIN KnownDurations
      THEN Ok([hours |-> KnownDurations[text]])
      ELSE Failed("ValueError")

\* str.upper, on the level names the inputs use
UpperCase == ("info" :> "INFO") @@ ("debug" :> "DEBUG")

upper(text) == IF text \in DOMAIN UpperCase THEN UpperCase[text] ELSE text

\* logging.getLevelName: the number of a known level name
KnownLevels == ("INFO" :> 20) @@ ("DEBUG" :> 10)

getLevelName(text) == IF text \in DOMAIN KnownLevels THEN KnownLevels[text] ELSE 0

\* re.compile
KnownPatterns == {"^temp-.*"}

re_compile(pattern) ==
    IF pattern \in KnownPatterns THEN Ok([pattern |-> pattern]) ELSE Failed("re.error")

\* The detectors of the detectors module, by name and parameters
prevent_delete_protected_image_detector == [detector |-> "protected_image", parameters |-> <<>>]
prevent_delete_image_in_use_detector == [detector |-> "image_in_use", parameters |-> <<>>]
prevent_delete_key_pair_in_use_detector == [detector |-> "key_pair_in_use", parameters |-> <<>>]
created_exclude_detector(excludes) == [detector |-> "exclude", parameters |-> excludes]
create_delete_if_older_than_detector(delta) == [detector |-> "older_than", parameters |-> <<delta>>]

CompileAll(patterns) == [i \in 1..Len(patterns) |-> re_compile(patterns[i])]

Values(results) == [i \in 1..Len(results) |-> results[i].value]

ExcludeDetectors(parent_property) ==
    IF "exclude" \in DOMAIN parent_property
      THEN LET compiled == CompileAll(parent_property["exclude"])
           IN  IF AllOk(compiled)
                 THEN Ok(<<created_exclude_detector(Values(compiled))>>)
                 ELSE FirstFailure(compiled)
      ELSE Ok(<<>>)

OlderThanDetectors(parent_property) ==
    IF "remove-if-older-than" \in DOMAIN parent_property
      THEN LET delta == parse_timedelta(parent_property["remove-if-older-than"])
           IN  IF delta.ok
                 THEN Ok(<<create_delete_if_older_than_detector(delta.value)>>)
                 ELSE delta
      ELSE Ok(<<>>)

_create_common_prevent_delete_detectors(parent_property) ==
    LET excludes == ExcludeDetectors(parent_property)
        older == OlderThanDetectors(parent_property)
    IN  IF ~excludes.ok THEN excludes
        ELSE IF ~older.ok THEN older
        ELSE Ok(excludes.value \o older.value)

ImageDetectors_NoProtected(common) == common \o <<prevent_delete_image_in_use_detector>>

ImageDetectors_NoInUse(common) == common \o <<prevent_delete_protected_image_detector>>

\* parse_configuration, the two appends of the images branch
ImageDetectors(common) ==
    common \o <<prevent_delete_protected_image_detector, prevent_delete_image_in_use_detector>>

\* parse_configuration, the key-pairs branch after the common detectors
KeyPairDetectors(common, raw_keypairs) ==
    LET unused == Subscript(raw_keypairs, "remove-only-if-unused")
    IN  IF ~unused.ok THEN unused
        ELSE IF unused.value THEN Ok(common \o <<prevent_delete_key_pair_in_use_detector>>)
        ELSE Ok(common)

\* `cleanup_areas[manager] = CleanupAreaConfiguration(detectors)`
SetArea(areas, m, detectors) == (m :> detectors) @@ areas

\* `OpenstackCredentials(...)` for each entry of the group's credentials
GroupCredentials(raw_cleanup) ==
    LET raw_credentials == raw_cleanup["credentials"]
    IN  [i \in 1..Len(raw_credentials) |->
            [auth_url |-> raw_cleanup["openstack_auth_url"],
             tenant |-> raw_cleanup["tenant"],
             username |-> raw_credentials[i]["username"],
             password |-> raw_credentials[i]["password"]]]

ImagesBranch(areas, raw_cleanup) ==
    IF "images" \in DOMAIN raw_cleanup
      THEN LET common == _create_common_prevent_delete_detectors(raw_cleanup["images"])
           IN  IF common.ok THEN Ok(SetArea(areas, ImageManager, ImageDetectors(common.value)))
               ELSE common
      ELSE Ok(areas)

InstancesBranch(areas, raw_cleanup) ==
    IF "instances" \in DOMAIN raw_cleanup
      THEN LET common == _create_common_prevent_delete_detectors(raw_cleanup["instances"])
           IN  IF common.ok THEN Ok(SetArea(areas, InstanceManager, common.value))
               ELSE common
      ELSE Ok(areas)

KeyPairsBranch(areas, raw_cleanup) ==
    IF "key-pairs" \in DOMAIN raw_cleanup
      THEN LET common == _create_common_prevent_delete_detectors(raw_cleanup["key-pairs"])
               detectors == KeyPairDetectors(common.value, raw_cleanup["key-pairs"])
           IN  IF ~common.ok THEN common
               ELSE IF ~detectors.ok THEN detectors
               ELSE Ok(SetArea(areas, KeyPairManager, detectors.value))
      ELSE Ok(areas)

\* One iteration of `for raw_cleanup in raw_configuration["cleanup"]`
CleanupIteration(configuration, raw_cleanup) ==
    LET credentials == configuration.credentials \o GroupCredentials(raw_cleanup)
        images == ImagesBranch(configuration.cleanup_areas, raw_cleanup)
        instances == InstancesBranch(images.value, raw_cleanup)
        keypairs == KeyPairsBranch(instances.value, raw_cleanup)
    IN  IF ~images.ok THEN images
        ELSE IF ~instances.ok THEN instances
        ELSE IF ~keypairs.ok THEN keypairs
        ELSE Ok([credentials |-> credentials, cleanup_areas |-> keypairs.value])

\* `CleanupConfiguration()`
NewCleanupConfiguration == [credentials |-> <<>>, cleanup_areas |-> <<>>]

\* The general section
GeneralConfiguration(raw_general) ==
    LET run_every == Subscript(raw_general, "run-every")
        run_period == IF run_every.ok THEN parse_timedelta(run_every.value) ELSE run_every
        log == Subscript(raw_general, "log")
        location == IF log.ok THEN Subscript(log.value, "location") ELSE log
        level == IF log.ok THEN Subscript(log.value, "level") ELSE log
    IN  IF ~run_period.ok THEN run_period
        ELSE IF ~location.ok THEN location
        ELSE IF ~level.ok THEN level
        ELSE Ok([run_period |-> run_period.value,
                 log |-> [location |-> location.value, level |-> getLevelName(upper(level.value))]])

NotParsed == [raised |-> FALSE, exc |-> NoError, general_configuration |-> None,
              cleanup_configurations |-> <<>>]

ParseFailed(exc) == [raised |-> TRUE, exc |-> exc, general_configuration |-> None,
                     cleanup_configurations |-> <<>>]

\* Inputs: what the configuration file may hold
RawGenerals ==
    { ("run-every" :> "1 day") @@ ("log" :> [location |-> "cleaner.log", level |-> "info"]),
      ("run-every" :> "daily") @@ ("log" :> [location |-> "cleaner.log", level |-> "info"]),
      ("run-every" :> "1 day") @@ ("log" :> [location |-> "cleaner.log"]) }

OptionalField(name, values) == {<<>>} \cup { (name :> v) : v \in values }

CommonPolicies ==
    { e @@ o : e \in OptionalField("exclude", {<<"^temp-.*">>}),
               o \in OptionalField("remove-if-older-than", {"12 hours", "fortnight"}) }

KeyPairPolicies == OptionalField("remove-only-if-unused", BOOLEAN)

\* Who owns the n-th cleanup group of the file: each group has its own tenant
GroupOwners ==
    << ("openstack_auth_url" :> "http://keystone-1") @@ ("tenant" :> "tenant-1")
         @@ ("credentials" :> <<[username |-> "alice", password |-> "a"]>>),
       ("openstack_auth_url" :> "http://keystone-1") @@ ("tenant" :> "tenant-2")
         @@ ("credentials" :> <<[username |-> "bob", password |-> "b"],
                                [username |-> "carol", password |-> "c"]>>),
       ("openstack_auth_url" :> "http://keystone-2") @@ ("tenant" :> "tenant-3")
         @@ ("credentials" :> <<[username |-> "dave", password |-> "d"]>>) >>

RawCleanups(n) ==
    IF n > Len(GroupOwners) THEN {}
    ELSE { GroupOwners[n] @@ images @@ instances @@ keypairs :
             images \in OptionalField("images", CommonPolicies),
             instances \in OptionalField("instances", {("remove-if-older-than" :> "12 hours")}),
             keypairs \in OptionalField("key-pairs", KeyPairPolicies) }

\* parse_configuration up to the loop over the cleanup groups
ParseConfiguration(raw_general) ==
    /\ cfgPc = "idle"
    /\ LET general == GeneralConfiguration(raw_general)
       IN  IF general.ok
             THEN /\ cfgPc' = "cleanup"
                  /\ parsed' = [NotParsed EXCEPT !.general_configuration = general.value]
             ELSE /\ cfgPc' = "done"
                  /\ parsed' = ParseFailed(general.exc)
    /\ cleanup_configuration' = NewCleanupConfiguration
    /\ raw_cleanups' = <<>>
    /\ UNCHANGED <<deleteVars, getAllVars, cycleVars>>

ParseCleanup(raw_cleanup) ==
    /\ cfgPc = "cleanup"
    /\ Len(raw_cleanups) < MaxCleanups
    /\ raw_cleanups' = Append(raw_cleanups, raw_cleanup)
    /\ LET next == CleanupIteration(cleanup_configuration, raw_cleanup)
       IN  IF next.ok
             THEN /\ cleanup_configuration' = next.value
                  /\ UNCHANGED <<cfgPc, parsed>>
             ELSE /\ cfgPc' = "done"
                  /\ parsed' = ParseFailed(next.exc)
                  /\ UNCHANGED cleanup_configuration
    /\ UNCHANGED <<deleteVars, getAllVars, cycleVars>>

\* The loop is over: `return Configuration(..., cleanup_configurations=[cleanup_configuration])`
ParseReturn ==
    /\ cfgPc = "cleanup"
    /\ cfgPc' = "done"
    /\ parsed' = [parsed EXCEPT !.cleanup_configurations = <<cleanup_configuration>>]
    /\ UNCHANGED <<raw_cleanups, cleanup_configuration>>
    /\ UNCHANGED <<deleteVars, getAllVars, cycleVars>>

InitConfig ==
    /\ cfgPc = "idle"
    /\ raw_cleanups = <<>>
    /\ cleanup_configuration = NewCleanupConfiguration
    /\ parsed = NotParsed

---------------------------------------------------------------------------
(* One cleanup cycle: detectors OR-combined per area, one instance snapshot *)

MaxCycles == 1

\* The current time of the cycle, in hours
Now == 100

Images ==
    { [identifier |-> "img-1", name |-> "base", created_at |-> 0, updated_at |-> 0,
       protected |-> TRUE],
      [identifier |-> "img-2", name |-> "golden", created_at |-> 0, updated_at |-> 0,
       protected |-> FALSE],
      [identifier |-> "img-3", name |-> "scratch", created_at |-> 0, updated_at |-> 0,
       protected |-> FALSE],
      [identifier |-> "img-4", name |-> "temp-1", created_at |-> 95, updated_at |-> 95,
       protected |-> FALSE] }

Instances ==
    { [identifier |-> "id-a", name |-> "vm-1", created_at |-> 0, updated_at |-> 0,
       image |-> "img-2", key_name |-> "key-a"],
      [identifier |-> "id-b", name |-> "temp-vm", created_at |-> 95, updated_at |-> 95,
       image |-> "img-gone", key_name |-> None] }

KeyPairs ==
    { [identifier |-> "key-a", name |-> "key-a", fingerprint |-> "aa:bb"],
      [identifier |-> "key-b", name |-> "key-b", fingerprint |-> "cc:dd"] }

\* Names each known pattern matches
NamesMatching == ("^temp-.*" :> {"temp-1", "temp-vm"})

Matches(regex, name) == name \in NamesMatching[regex.pattern]

\* TRUE when the detector forbids deleting the resource
Vetoes(d, resource, instances) ==
    CASE d.detector = "protected_image" -> resource.protected
      [] d.detector = "image_in_use" ->
            \E i \in instances : i.image = resource.identifier
      [] d.detector = "key_pair_in_use" ->
            \E i \in instances : i.key_name = resource.name
      [] d.detector = "exclude" ->
            \E k \in 1..Len(d.parameters) : Matches(d.parameters[k], resource.name)
      [] d.detector = "older_than" ->
            resource.created_at > Now - d.parameters[1].hours

\* Logical OR over the area's detectors
MustKeep(detectors, resource, instances) ==
    \E k \in 1..Len(detectors) : Vetoes(detectors[k], resource, instances)

AreaSnapshot(m, instances) ==
    IF m = ImageManager THEN Images
    ELSE IF m = InstanceManager THEN instances
    ELSE KeyPairs

DeleteSets(areas, instances) ==
    [m \in DOMAIN areas |->
        {r \in AreaSnapshot(m, instances) : ~MustKeep(areas[m], r, instances)}]

InstancesToDelete(areas, instances) ==
    IF InstanceManager \in DOMAIN areas
      THEN DeleteSets(areas, instances)[InstanceManager]
      ELSE {}

\* One cycle: `snapshot` are the instances on the backend when the cycle
\* starts, `succeeded` those whose deletion the backend carried out.
RunCycle(snapshot, succeeded) ==
    /\ cfgPc = "done"
    /\ ~parsed.raised
    /\ cycles < MaxCycles
    /\ LET areas == parsed.cleanup_configurations[1].cleanup_areas
       IN  /\ succeeded \subseteq InstancesToDelete(areas, snapshot)
           /\ delete_sets' = DeleteSets(areas, snapshot)
    /\ instance_snapshot' = snapshot
    /\ backend_instances' = snapshot \ succeeded
    /\ cycles' = cycles + 1
    /\ UNCHANGED <<deleteVars, getAllVars, configVars>>

InitCycle ==
    /\ cycles = 0
    /\ instance_snapshot = {}
    /\ backend_instances = {}
    /\ delete_sets = <<>>

NextConfig ==
    \/ \E raw_general \in RawGenerals : ParseConfiguration(raw_general)
    \/ \E raw_cleanup \in RawCleanups(Len(raw_cleanups) + 1) : ParseCleanup(raw_cleanup)
    \/ ParseReturn
    \/ \E snapshot \in SUBSET Instances : \E succeeded \in SUBSET snapshot :
          RunCycle(snapshot, succeeded)

---------------------------------------------------------------------------
(* Properties of parse_configuration and of the cycle it configures *)

Areas == cleanup_configuration.cleanup_areas

HasDetector(m, name) ==
    /\ m \in DOMAIN Areas
    /\ \E k \in 1..Len(Areas[m]) : Areas[m][k].detector = name

GroupsWith(area) == {i \in 1..Len(raw_cleanups) : area \in DOMAIN raw_cleanups[i]}

cycled == cycles > 0

Accepted == cfgPc \in {"cleanup", "done"} /\ ~parsed.raised

\* C5: whenever parse_configuration has accepted an images policy, whatever
\* its exclude and remove-if-older-than options, the images detector list
\* holds the protected-image detector, and a cycle run on the parsed
\* configuration never puts a protected image into the images delete set.
C5_ProtectedImagesKept ==
    /\ (Accepted /\ GroupsWith("images") # {})
          => HasDetector(ImageManager, "protected_image")
    /\ (cycled /\ ImageManager \in DOMAIN delete_sets)
          => \A g \in Images : g.protected => g \notin delete_sets[ImageManager]

C5_Witness ==
    /\ cycled
    /\ HasDetector(ImageManager, "exclude")
    /\ HasDetector(ImageManager, "older_than")
    /\ \E g \in Images : g.protected /\ g \notin delete_sets[ImageManager]
    /\ \E g \in Images : g \in delete_sets[ImageManager]

\* C6: whenever parse_configuration has accepted an images policy, the
\* images detector list holds the image in-use detector, and a cycle never
\* puts into the images delete set an image that an instance of the cycle's
\* instance snapshot refers to, whether or not that instance was deleted
\* during the cycle.
C6_ImagesInUseKept ==
    /\ (Accepted /\ GroupsWith("images") # {})
          => HasDetector(ImageManager, "image_in_use")
    /\ (cycled /\ ImageManager \in DOMAIN delete_sets)
          => \A i \in instance_snapshot : \A g \in Images :
                i.image = g.identifier => g \notin delete_sets[ImageManager]

C6_Witness ==
    /\ cycled
    /\ ImageManager \in DOMAIN delete_sets
    /\ \E i \in instance_snapshot :
          /\ i \notin backend_instances
          /\ \E g \in Images :
                /\ i.image = g.identifier
                /\ ~g.protected
                /\ g \notin delete_sets[ImageManager]
    /\ \E g \in Images : g \in delete_sets[ImageManager]

LastCleanup == raw_cleanups[Len(raw_cleanups)]

PolicyParses(raw_cleanup, area) ==
    area \in DOMAIN raw_cleanup => _create_common_prevent_delete_detectors(raw_cleanup[area]).ok

ExplicitlyTrue(raw_keypairs) ==
    /\ "remove-only-if-unused" \in DOMAIN raw_keypairs
    /\ raw_keypairs["remove-only-if-unused"] = TRUE

\* C7: for a cleanup group with a key-pairs policy (and nothing else wrong
\* with the group), parse_configuration accepts the group, and the key-pairs
\* detector list holds the key-pair in-use detector if and only if the
\* policy sets remove-only-if-unused to true; with the option false or
\* absent the list is built without that detector.
C7_KeyPairInUseOptIn ==
    (/\ cfgPc \in {"cleanup", "done"}
     /\ raw_cleanups # <<>>
     /\ "key-pairs" \in DOMAIN LastCleanup
     /\ PolicyParses(LastCleanup, "images")
     /\ PolicyParses(LastCleanup, "instances")
     /\ PolicyParses(LastCleanup, "key-pairs"))
       => /\ ~parsed.raised
          /\ KeyPairManager \in DOMAIN Areas
          /\ HasDetector(KeyPairManager, "key_pair_in_use")
                <=> ExplicitlyTrue(LastCleanup["key-pairs"])

\* What the group alone asks for: its credentials and its detector lists
OwnConfiguration(raw_cleanup) == CleanupIteration(NewCleanupConfiguration, raw_cleanup).value

Range(seq) == {seq[i] : i \in 1..Len(seq)}

\* C9: in the configuration parse_configuration returns, every credential
\* is paired with the detector lists of a cleanup group it belongs to, and
\* with nothing of any other group.
C9_GroupsKeptSeparate ==
    (cfgPc = "done" /\ ~parsed.raised) =>
      \A c \in Range(parsed.cleanup_configurations) :
        \A credential \in Range(c.credentials) :
          \E i \in 1..Len(raw_cleanups) :
            /\ credential \in Range(OwnConfiguration(raw_cleanups[i]).credentials)
            /\ c.cleanup_areas = OwnConfiguration(raw_cleanups[i]).cleanup_areas

---------------------------------------------------------------------------
(* Specifications *)

Init == InitDelete /\ InitGetAll /\ InitConfig /\ InitCycle

SpecDelete == Init /\ [][NextDelete]_vars

SpecGetAll == Init /\ [][NextGetAll]_vars

SpecConfig == Init /\ [][NextConfig]_vars
====
